---------------------------- MODULE Spec2Model ----------------------------
(***************************************************************************)
(* A model of azure_sql_mcp/server.py: the scoped connection acquisition   *)
(* (get_connection), the three handlers that use it (list_resources,       *)
(* read_resource, call_tool) and the fixed-width renderer (_rows_to_text). *)
(*                                                                         *)
(* Python strings are sequences of one-character strings.  The processes   *)
(* outside the program (the az command, the ODBC driver, the database) are *)
(* nondeterministic choices over the results they can hand back.           *)
(***************************************************************************)
EXTENDS Integers, Sequences, FiniteSets, TLC

(***************************************************************************)
(* Bounds of the model.                                                    *)
(***************************************************************************)
NumTasks == 2          \* handler invocations that may be in flight together
MaxInvocations == 2    \* invocations started in one behaviour
MaxOut == 2            \* characters the az command prints
MaxUri == 3            \* characters of a resource URI after its scheme
MaxCells == 4          \* cells (columns times rows) of a rendered result set

(***************************************************************************)
(* Program constants.                                                      *)
(***************************************************************************)
DefaultRows == 50              \* arguments.get("rows", 50)
RowCap == 500                  \* min(..., 500)
AccessTokenAttr == 1256        \* attrs_before={1256: token_struct}

(***************************************************************************)
(* String literals of the source.                                          *)
(***************************************************************************)
SchemePrefix ==
    <<"m", "s", "s", "q", "l", ":", "/", "/">>
NoRowsText ==
    <<"(", "n", "o", " ", "r", "o", "w", "s", ")">>
NullText ==
    <<"N", "U", "L", "L">>
NoneText ==
    <<"N", "o", "n", "e">>
AffectedSuffix ==
    <<" ", "r", "o", "w", "(", "s", ")", " ", "a", "f", "f", "e", "c", "t", "e", "d">>
TablesSuffix ==
    <<" ", "t", "a", "b", "l", "e", "s", ")">>
DriverPart ==
    <<"D", "R", "I", "V", "E", "R", "=", "{", "O", "D", "B", "C", " ", "D", "r",
      "i", "v", "e", "r", " ", "1", "8", " ", "f", "o", "r", " ", "S", "Q", "L",
      " ", "S", "e", "r", "v", "e", "r", "}", ";">>
ServerKey ==
    <<"S", "E", "R", "V", "E", "R", "=">>
DatabaseKey ==
    <<"D", "A", "T", "A", "B", "A", "S", "E", "=">>
EncryptPart ==
    <<"E", "n", "c", "r", "y", "p", "t", "=", "y", "e", "s", ";">>
TrustKey ==
    <<"T", "r", "u", "s", "t", "S", "e", "r", "v", "e", "r", "C", "e", "r", "t",
      "i", "f", "i", "c", "a", "t", "e", "=">>
UidKey ==
    <<"U", "I", "D", "=">>
PwdKey ==
    <<";", "P", "W", "D", "=">>
TableWord ==
    <<"T", "a", "b", "l", "e", " ">>
MimeText ==
    <<"t", "e", "x", "t", "/", "p", "l", "a", "i", "n">>
AuthSql ==
    <<"s", "q", "l">>
AuthAzCli ==
    <<"a", "z", "_", "c", "l", "i">>
TrustNo ==
    <<"n", "o">>

(***************************************************************************)
(* Python built-ins on strings and integers.                               *)
(***************************************************************************)
Max(a, b) == IF a >= b THEN a ELSE b

Min(a, b) == IF a <= b THEN a ELSE b

Digit(d) ==
    CASE d = 0 -> "0" [] d = 1 -> "1" [] d = 2 -> "2" [] d = 3 -> "3"
      [] d = 4 -> "4" [] d = 5 -> "5" [] d = 6 -> "6" [] d = 7 -> "7"
      [] d = 8 -> "8" [] d = 9 -> "9"

RECURSIVE NatToStr(_)
NatToStr(n) ==
    IF n < 10 THEN <<Digit(n)>> ELSE NatToStr(n \div 10) \o <<Digit(n % 10)>>

\* str(n) of an integer
IntToStr(n) == IF n < 0 THEN <<"-">> \o NatToStr(-n) ELSE NatToStr(n)

\* c * n
Repeat(c, n) == [k \in 1..n |-> c]

\* s.ljust(w)
Ljust(s, w) == s \o Repeat(" ", w - Len(s))

LowerChar(c) ==
    CASE c = "A" -> "a" [] c = "Z" -> "z" [] c = "C" -> "c" [] c = "L" -> "l"
      [] c = "I" -> "i" [] c = "S" -> "s" [] c = "Q" -> "q" [] c = "Y" -> "y"
      [] c = "E" -> "e" [] c = "N" -> "n" [] c = "O" -> "o"
      [] OTHER -> c

\* s.lower()
Lower(s) == [k \in 1..Len(s) |-> LowerChar(s[k])]

IsSpace(c) == c \in {" ", "\n", "\t", "\r"}

RECURSIVE LStrip(_)
LStrip(s) ==
    IF s # <<>> /\ IsSpace(Head(s)) THEN LStrip(Tail(s)) ELSE s

RECURSIVE RStrip(_)
RStrip(s) ==
    IF s # <<>> /\ IsSpace(s[Len(s)]) THEN RStrip(SubSeq(s, 1, Len(s) - 1)) ELSE s

\* s.strip()
Strip(s) == RStrip(LStrip(s))

\* whether sub occurs in s at index k
OccursAt(s, sub, k) ==
    /\ k + Len(sub) - 1 <= Len(s)
    /\ \A j \in 1..Len(sub) : s[k + j - 1] = sub[j]

\* s.find(sub) as a 1-based index, 0 when sub does not occur
Find(s, sub) ==
    LET hits == {k \in 1..Len(s) : OccursAt(s, sub, k)}
    IN  IF hits = {} THEN 0 ELSE CHOOSE k \in hits : \A h \in hits : k <= h

\* s.replace(old, new), old non-empty: every non-overlapping occurrence,
\* left to right
RECURSIVE Replace(_, _, _)
Replace(s, old, new) ==
    LET k == Find(s, old)
    IN  IF k = 0 THEN s
        ELSE SubSeq(s, 1, k - 1) \o new
               \o Replace(SubSeq(s, k + Len(old), Len(s)), old, new)

\* s.split(sep, 1)
Split1(s, sep) ==
    LET k == Find(s, sep)
    IN  IF k = 0 THEN <<s>>
        ELSE <<SubSeq(s, 1, k - 1), SubSeq(s, k + Len(sep), Len(s))>>

\* sep.join(parts)
RECURSIVE Join(_, _)
Join(parts, sep) ==
    IF parts = <<>> THEN <<>>
    ELSE IF Len(parts) = 1 THEN parts[1]
    ELSE parts[1] \o sep \o Join(Tail(parts), sep)

\* A database value: None, an integer or a string.
Null == [t |-> "null", n |-> 0, s |-> <<>>]
IntVal(n) == [t |-> "int", n |-> n, s |-> <<>>]
StrVal(s) == [t |-> "str", n |-> 0, s |-> s]

\* str(v)
PyStr(v) ==
    CASE v.t = "null" -> NoneText
      [] v.t = "int" -> IntToStr(v.n)
      [] v.t = "str" -> v.s

\* s.encode("utf-16-le") for the characters an access token is drawn from
Ord(c) ==
    CASE c = " " -> 32 [] c = "\n" -> 10 [] c = "e" -> 101 [] c = "y" -> 121
      [] OTHER -> 63

RECURSIVE EncodeUtf16le(_)
EncodeUtf16le(s) ==
    IF s = <<>> THEN <<>>
    ELSE <<Ord(Head(s)) % 256, Ord(Head(s)) \div 256>> \o EncodeUtf16le(Tail(s))

\* struct.pack(f"<I{len(b)}s", len(b), b)
PackToken(b) ==
    LET n == Len(b)
    IN  <<n % 256, (n \div 256) % 256, (n \div 65536) % 256,
          (n \div 16777216) % 256>> \o b


(***************************************************************************)
(* The renderer, _rows_to_text.  A cursor is the driver's answer to one    *)
(* execute: desc says whether cursor.description is set, columns are the   *)
(* names in it, rows is what fetchall() gives, rowcount is cursor.rowcount.*)
(***************************************************************************)
Cursor(desc, columns, rows, rowcount) ==
    [desc |-> desc, columns |-> columns, rows |-> rows, rowcount |-> rowcount]

\* max(iterable, default=0) of a finite set of naturals
MaxOf(S) == IF S = {} THEN 0 ELSE CHOOSE m \in S : \A x \in S : x <= m

\* col_widths of line 64, as if str(None) were empty
ColWidthsSkipNone(columns, rows) ==
    [i \in 1..Len(columns) |->
        Max(Len(columns[i]),
            MaxOf({IF rows[r][i].t = "null" THEN 0 ELSE Len(PyStr(rows[r][i]))
                     : r \in 1..Len(rows)}))]

\* col_widths of line 64
ColWidths(columns, rows) ==
    [i \in 1..Len(columns) |->
        Max(Len(columns[i]),
            MaxOf({Len(PyStr(rows[r][i])) : r \in 1..Len(rows)}))]

\* sep of line 65
SepLine(widths) ==
    <<"+", "-">>
      \o Join([i \in 1..Len(widths) |-> Repeat("-", widths[i])], <<"-", "+", "-">>)
      \o <<"-", "+">>

\* header of line 66
HeaderLine(columns, widths) ==
    <<"|", " ">>
      \o Join([i \in 1..Len(columns) |-> Ljust(columns[i], widths[i])],
              <<" ", "|", " ">>)
      \o <<" ", "|">>

\* one data line of line 69
RowLine(row, widths) ==
    <<"|", " ">>
      \o Join([i \in 1..Len(row) |->
                 IF row[i].t # "null" THEN Ljust(PyStr(row[i]), widths[i])
                 ELSE Ljust(NullText, widths[i])],
              <<" ", "|", " ">>)
      \o <<" ", "|">>

\* the summary of line 71
FooterLine(n) ==
    <<"(">> \o IntToStr(n) \o <<" ", "r", "o", "w">>
      \o (IF n # 1 THEN <<"s">> ELSE <<>>) \o <<")">>

\* lines of lines 67-71
TableLines(columns, rows) ==
    LET w == ColWidths(columns, rows)
    IN  <<SepLine(w), HeaderLine(columns, w), SepLine(w)>>
          \o [r \in 1..Len(rows) |-> RowLine(rows[r], w)]
          \o <<SepLine(w), FooterLine(Len(rows))>>

\* _rows_to_text(cursor), for a cursor whose description is set
rows_to_text(cur) ==
    IF cur.rows = <<>> THEN NoRowsText
    ELSE Join(TableLines(cur.columns, cur.rows), <<"\n">>)


(***************************************************************************)
(* State.                                                                  *)
(*   environ  os.environ: keys is the set of variables that are set        *)
(*   pc       where each handler invocation stands                         *)
(*   req      the request a task is serving                                *)
(*   conn     get_connection's local conn of the task (0 is None)          *)
(*   work     how the body of the with block ended                         *)
(*   result   what the handler returned or raised to the protocol layer    *)
(*   hist     the calls the invocation made on the outside world: the runs *)
(*            of az, the calls of pyodbc.connect, the statements executed  *)
(*            with the connection each ran on, the cursors the driver      *)
(*            answered with, and the number of calls of _rows_to_text      *)
(*   conns    the driver's connections, indexed by handle                  *)
(*   started  the number of invocations begun                              *)
(*   cursor, text, shown  the renderer run on its own                      *)
(***************************************************************************)
VARIABLES environ, pc, req, conn, work, result, hist, conns, started,
          cursor, text, shown

serverVars == <<environ, pc, req, conn, work, result, hist, conns, started>>
renderVars == <<cursor, text, shown>>
vars == <<environ, pc, req, conn, work, result, hist, conns, started,
          cursor, text, shown>>

Tasks == 1..NumTasks

NoOutcome == [type |-> "none", error |-> "", value |-> <<>>]
Returned(v) == [type |-> "return", error |-> "", value |-> v]
Raised(e) == [type |-> "raise", error |-> e, value |-> <<>>]

NoArgs == [keys |-> {}, schema |-> <<>>, table |-> <<>>, rows |-> 0, sql |-> ""]
NoReq ==
    [handler |-> "", serial |-> 0, name |-> "", args |-> NoArgs, uri |-> <<>>,
     schema |-> <<>>, table |-> <<>>]
NoHist ==
    [az |-> <<>>, connects |-> <<>>, stmts |-> <<>>, answers |-> <<>>,
     rendered |-> 0]

NoAttrs == [has |-> FALSE, key |-> 0, value |-> <<>>]
TokenAttrs(b) == [has |-> TRUE, key |-> AccessTokenAttr, value |-> b]

(***************************************************************************)
(* The Connection Broker.                                                  *)
(***************************************************************************)
EnvHas(k) == k \in environ.keys

\* _build_conn_str(), with AZURE_SQL_SERVER and AZURE_SQL_DATABASE set
build_conn_str ==
    DriverPart
      \o ServerKey \o environ.AZURE_SQL_SERVER \o <<";">>
      \o DatabaseKey \o environ.AZURE_SQL_DATABASE \o <<";">>
      \o EncryptPart
      \o TrustKey
      \o Lower(IF EnvHas("AZURE_SQL_TRUST_CERT") THEN environ.AZURE_SQL_TRUST_CERT
               ELSE TrustNo)
      \o <<";">>

\* _get_az_token() run without check=True
get_az_token_unchecked(az) == [raised |-> FALSE, token |-> Strip(az.stdout)]

\* _get_az_token(): az is what subprocess.run saw, its exit code and its
\* standard output; check=True raises CalledProcessError on a non-zero code
get_az_token(az) == [raised |-> az.rc # 0, token |-> Strip(az.stdout)]

\* azRuns: the runs of the az command, connects: the calls of pyodbc.connect
Attempt(azRuns, connects, error) ==
    [az |-> azRuns, connects |-> connects, error |-> error]

\* the static branch of lines 50-52 with the token attribute passed as well
StaticConnectWithToken(connStr) ==
    [str |-> connStr \o UidKey \o environ.AZURE_SQL_USER
               \o PwdKey \o environ.AZURE_SQL_PASSWORD \o <<";">>,
     attrs |-> TokenAttrs(PackToken(<<>>))]

\* the arguments of pyodbc.connect on line 52
StaticConnect(connStr) ==
    [str |-> connStr \o UidKey \o environ.AZURE_SQL_USER
               \o PwdKey \o environ.AZURE_SQL_PASSWORD \o <<";">>,
     attrs |-> NoAttrs]

\* the arguments of pyodbc.connect on line 48
TokenConnect(connStr, token) ==
    [str |-> connStr, attrs |-> TokenAttrs(PackToken(EncodeUtf16le(token)))]

\* Lines 40-52 of get_connection: what it calls and the error it raises ("" when
\* the connection is opened).  ok is whether the driver accepts the connection.
get_connection_try(az, ok) ==
    LET auth == Lower(IF EnvHas("AZURE_SQL_AUTH") THEN environ.AZURE_SQL_AUTH
                      ELSE AuthSql)
        driver == IF ok THEN "" ELSE "pyodbc.Error"
    IN  IF auth = AuthAzCli
        THEN LET t == get_az_token(az)
             IN  IF t.raised THEN Attempt(<<az>>, <<>>, "CalledProcessError")
                 ELSE Attempt(<<az>>, <<TokenConnect(build_conn_str, t.token)>>,
                              driver)
        ELSE IF ~EnvHas("AZURE_SQL_USER") \/ ~EnvHas("AZURE_SQL_PASSWORD")
             THEN Attempt(<<>>, <<>>, "KeyError")
             ELSE Attempt(<<>>, <<StaticConnect(build_conn_str)>>, driver)

\* a driver that hands out the connection it already has, when it has one
PooledHandle == IF conns = <<>> THEN 1 ELSE Len(conns)

\* the handle pyodbc.connect returns: a new connection each time
NewHandle == Len(conns) + 1

\* line 55 without the finally: the close is reached only when the body
\* completes
ShouldCloseOnSuccess(i) == conn[i] # 0 /\ work[i].type = "return"

\* line 55, "if conn:"
ShouldClose(i) == conn[i] # 0


(***************************************************************************)
(* The handlers' work inside the with block.  A statement is the text      *)
(* handed to cursor.execute: its template, the values formatted into it    *)
(* and the parameters bound to it.                                         *)
(***************************************************************************)
Stmt(sql, top, schema, table, params) ==
    [sql |-> sql, top |-> top, schema |-> schema, table |-> table,
     params |-> params]

Done(stmts, rendered, out) == [stmts |-> stmts, rendered |-> rendered, out |-> out]

SqlSchemas == "SELECT SCHEMA_NAME FROM INFORMATION_SCHEMA.SCHEMATA"
SqlTables == "SELECT TABLE_SCHEMA, TABLE_NAME FROM INFORMATION_SCHEMA.TABLES"
SqlTablesOf == "SELECT TABLE_SCHEMA, TABLE_NAME ... AND TABLE_SCHEMA = ?"
SqlDescribe == "SELECT c.COLUMN_NAME, ... WHERE c.TABLE_SCHEMA = ? AND c.TABLE_NAME = ?"
SqlSample == "SELECT TOP {n} * FROM [{schema}].[{table}]"
SqlRead == "SELECT TOP 100 * FROM [{schema}].[{table}]"

\* _rows_to_text(cursor) as a handler calls it: iterating cursor.description
\* raises TypeError when the statement produced no column metadata
Render(cur) ==
    IF cur.desc THEN Returned(rows_to_text(cur)) ELSE Raised("TypeError")

\* line 229
SampleRows(args) ==
    Min(IF "rows" \in args.keys THEN args.rows ELSE DefaultRows, RowCap)

\* line 235 deciding by the row count instead of the column metadata
DescriptionSetByCount(cur) == cur.rowcount = -1

\* line 235, "if cursor.description:"
DescriptionSet(cur) == cur.desc

\* Lines 174-243 of call_tool: the statements executed, how often the
\* renderer was called, and the outcome.  cur is the driver's answer to the
\* statement, fails whether cursor.execute raises instead.
call_tool_work(name, args, cur, fails) ==
    CASE name = "list_schemas" ->
           LET st == <<Stmt(SqlSchemas, 0, <<>>, <<>>, <<>>)>>
           IN  IF fails THEN Done(st, 0, Raised("pyodbc.Error"))
               ELSE Done(st, 0,
                      Returned(Join([r \in 1..Len(cur.rows) |-> cur.rows[r][1].s],
                                    <<"\n">>)))
      [] name = "list_tables" ->
           LET schema == IF "schema" \in args.keys THEN args.schema ELSE <<>>
               st == IF schema # <<>>
                     THEN <<Stmt(SqlTablesOf, 0, <<>>, <<>>, <<schema>>)>>
                     ELSE <<Stmt(SqlTables, 0, <<>>, <<>>, <<>>)>>
           IN  IF fails THEN Done(st, 0, Raised("pyodbc.Error"))
               ELSE Done(st, 0,
                      Returned(Join([r \in 1..Len(cur.rows) |->
                                       PyStr(cur.rows[r][1]) \o <<".">>
                                         \o PyStr(cur.rows[r][2])],
                                    <<"\n">>)
                               \o <<"\n", "\n", "(">> \o IntToStr(Len(cur.rows))
                               \o TablesSuffix))
      [] name = "describe_table" ->
           IF "schema" \notin args.keys \/ "table" \notin args.keys
           THEN Done(<<>>, 0, Raised("KeyError"))
           ELSE LET st == <<Stmt(SqlDescribe, 0, <<>>, <<>>,
                                 <<args.schema, args.table, args.schema, args.table>>)>>
                IN  IF fails THEN Done(st, 0, Raised("pyodbc.Error"))
                    ELSE Done(st, 1, Render(cur))
      [] name = "sample_table" ->
           IF "schema" \notin args.keys \/ "table" \notin args.keys
           THEN Done(<<>>, 0, Raised("KeyError"))
           ELSE LET st == <<Stmt(SqlSample, SampleRows(args), args.schema,
                                 args.table, <<>>)>>
                IN  IF fails THEN Done(st, 0, Raised("pyodbc.Error"))
                    ELSE Done(st, 1, Render(cur))
      [] name = "execute_query" ->
           IF "sql" \notin args.keys THEN Done(<<>>, 0, Raised("KeyError"))
           ELSE LET st == <<Stmt(args.sql, 0, <<>>, <<>>, <<>>)>>
                IN  IF fails THEN Done(st, 0, Raised("pyodbc.Error"))
                    ELSE IF DescriptionSet(cur) THEN Done(st, 1, Render(cur))
                    ELSE Done(st, 0,
                           Returned(IntToStr(cur.rowcount) \o AffectedSuffix))
      [] OTHER -> Done(<<>>, 0, Raised("ValueError"))

\* lines 107-109 of read_resource
read_resource_work(schema, table, cur, fails) ==
    LET st == <<Stmt(SqlRead, 0, schema, table, <<>>)>>
    IN  IF fails THEN Done(st, 0, Raised("pyodbc.Error"))
        ELSE Done(st, 1, Render(cur))

\* types.Resource(...) of lines 89-94
Resource(row) ==
    LET name == PyStr(row[1]) \o <<".">> \o PyStr(row[2])
    IN  [uri |-> SchemePrefix \o name, name |-> name,
         description |-> TableWord \o name, mimeType |-> MimeText]

\* lines 81-96 of list_resources
list_resources_work(cur, fails) ==
    LET st == <<Stmt(SqlTables, 0, <<>>, <<>>, <<>>)>>
    IN  IF fails THEN Done(st, 0, Raised("pyodbc.Error"))
        ELSE Done(st, 0,
               Returned([r \in 1..Len(cur.rows) |-> Resource(cur.rows[r])]))

\* lines 101-102 of read_resource
UriParts(uri) == Split1(Replace(uri, SchemePrefix, <<>>), <<".">>)


(***************************************************************************)
(* What the outside world can hand the program.                            *)
(***************************************************************************)
SeqsUpTo(S, n) == UNION {[1..k -> S] : k \in 0..n}

Dbo == <<"d", "b", "o">>
Sales == <<"S">>
Orders == <<"T">>

EnvKeys ==
    {"AZURE_SQL_AUTH", "AZURE_SQL_SERVER", "AZURE_SQL_DATABASE",
     "AZURE_SQL_TRUST_CERT", "AZURE_SQL_USER", "AZURE_SQL_PASSWORD"}

Env(keys, auth) ==
    [keys |-> keys, AZURE_SQL_AUTH |-> auth, AZURE_SQL_SERVER |-> <<"h">>,
     AZURE_SQL_DATABASE |-> <<"d">>, AZURE_SQL_TRUST_CERT |-> <<"Y", "E", "S">>,
     AZURE_SQL_USER |-> <<"u">>, AZURE_SQL_PASSWORD |-> <<"p">>]

\* the configurations the setup script writes, with or without the optional
\* variables, in the letter case the user typed
Environments ==
    {Env(EnvKeys \ {"AZURE_SQL_AUTH"}, AuthSql)}
      \cup {Env(EnvKeys \ opt, auth) :
               opt \in {{}, {"AZURE_SQL_TRUST_CERT"}, {"AZURE_SQL_USER"},
                        {"AZURE_SQL_PASSWORD"}},
               auth \in {AuthSql, <<"A", "Z", "_", "C", "L", "I">>}}

AzResults ==
    {[rc |-> 1, stdout |-> <<>>]}
      \cup {[rc |-> 0, stdout |-> o] : o \in SeqsUpTo({"\n", "e"}, MaxOut)}

Args(keys, schema, table, rows, sql) ==
    [keys |-> keys, schema |-> schema, table |-> table, rows |-> rows, sql |-> sql]

RowsRequested == {-5, 0, 1, 50, 500, 501, 1000}

ToolCalls ==
    {[name |-> "list_schemas", args |-> NoArgs],
     [name |-> "list_tables", args |-> NoArgs],
     [name |-> "list_tables", args |-> Args({"schema"}, <<>>, <<>>, 0, "")],
     [name |-> "list_tables", args |-> Args({"schema"}, Dbo, <<>>, 0, "")],
     [name |-> "describe_table", args |-> NoArgs],
     [name |-> "describe_table", args |-> Args({"schema"}, Dbo, <<>>, 0, "")],
     [name |-> "describe_table", args |-> Args({"schema", "table"}, Dbo, Orders, 0, "")],
     [name |-> "sample_table", args |-> Args({"table"}, <<>>, Orders, 0, "")],
     [name |-> "sample_table", args |-> Args({"schema", "table"}, Dbo, Orders, 0, "")],
     [name |-> "execute_query", args |-> NoArgs],
     [name |-> "execute_query", args |-> Args({"sql"}, <<>>, <<>>, 0, "SELECT x FROM t")],
     [name |-> "execute_query", args |-> Args({"sql"}, <<>>, <<>>, 0, "UPDATE t SET x = 1")],
     [name |-> "drop_table", args |-> NoArgs]}
      \cup {[name |-> "sample_table",
             args |-> Args({"schema", "table", "rows"}, Dbo, Orders, n, "")] :
               n \in RowsRequested}

Uris ==
    {SchemePrefix \o r : r \in SeqsUpTo({"s", "."}, MaxUri)}
      \cup {<<"s", ".">> \o SchemePrefix \o <<"t">>, <<"s">>}

ColX == <<"x">>
ColTotal == <<"t", "o", "t", "a", "l">>

SchemaCursors ==
    {Cursor(TRUE, <<ColX>>, rows, -1) :
        rows \in {<<>>, <<<<StrVal(Dbo)>>, <<StrVal(Sales)>>>>}}

TableCursors ==
    {Cursor(TRUE, <<ColX, ColTotal>>, rows, -1) :
        rows \in {<<>>, <<<<StrVal(Dbo), StrVal(Orders)>>>>}}

QueryCursors ==
    {Cursor(TRUE, <<ColX>>, <<>>, -1),
     Cursor(TRUE, <<ColX>>, <<<<Null>>>>, -1),
     Cursor(TRUE, <<ColX, ColTotal>>, <<<<IntVal(1), Null>>, <<IntVal(100), StrVal(Dbo)>>>>, -1),
     Cursor(FALSE, <<>>, <<>>, 3),
     Cursor(FALSE, <<>>, <<>>, 0),
     Cursor(FALSE, <<>>, <<>>, -1)}

\* everything the collaborators can supply
Wide == [calls |-> ToolCalls, uris |-> Uris, azs |-> AzResults,
         cursors |-> QueryCursors, tables |-> TableCursors, oks |-> BOOLEAN,
         fails |-> BOOLEAN, closeFails |-> BOOLEAN]

\* a workload small enough to interleave: one tool call, one resource read,
\* the resource listing, an az command that may fail, a driver that does not
Narrow ==
    [calls |-> {c \in ToolCalls :
                  c.name = "execute_query" /\ c.args.sql = "UPDATE t SET x = 1"},
     uris |-> {SchemePrefix \o <<"s", ".", "s">>},
     azs |-> {a \in AzResults : a.rc = 1 \/ a.stdout = <<"e", "\n">>},
     cursors |-> {c \in QueryCursors : Len(c.rows) = 1 \/ c.rowcount = 3},
     tables |-> {c \in TableCursors : c.rows # <<>>},
     oks |-> {TRUE}, fails |-> {FALSE}, closeFails |-> {FALSE}]

\* the answers the database can give to the statement of request r
CursorsFor(r, D) ==
    IF r.handler = "list_resources" \/ r.name = "list_tables" THEN D.tables
    ELSE IF r.name = "list_schemas" THEN SchemaCursors
    ELSE IF r.name = "execute_query" THEN D.cursors
    ELSE {c \in D.cursors : c.desc}

ColNames == {ColX, ColTotal}
Values == {Null, IntVal(7), StrVal(<<"h", "e", "l", "l", "o", "!">>)}

RenderCursors ==
    UNION {{Cursor(TRUE, cols, rows, -1) :
              cols \in [1..c -> ColNames],
              rows \in SeqsUpTo([1..c -> Values], MaxCells \div c)} :
             c \in 1..MaxCells}

RestCursor == Cursor(TRUE, <<ColX>>, <<>>, -1)


(***************************************************************************)
(* Initial states.                                                         *)
(***************************************************************************)
ServerAtRest ==
    /\ pc = [i \in Tasks |-> "idle"]
    /\ req = [i \in Tasks |-> NoReq]
    /\ conn = [i \in Tasks |-> 0]
    /\ work = [i \in Tasks |-> NoOutcome]
    /\ result = [i \in Tasks |-> NoOutcome]
    /\ hist = [i \in Tasks |-> NoHist]
    /\ conns = <<>>
    /\ started = 0

RendererAtRest ==
    /\ cursor = RestCursor
    /\ text = <<>>
    /\ shown = FALSE

Init ==
    /\ environ \in Environments
    /\ ServerAtRest
    /\ RendererAtRest

InitConc ==
    /\ environ = Env(EnvKeys, AuthAzCli)
    /\ ServerAtRest
    /\ RendererAtRest

InitRender ==
    /\ environ = Env(EnvKeys, AuthSql)
    /\ ServerAtRest
    /\ cursor \in RenderCursors
    /\ text = <<>>
    /\ shown = FALSE

(***************************************************************************)
(* The protocol layer calls a handler.                                     *)
(***************************************************************************)
Begin(i, r) ==
    /\ pc[i] = "idle"
    /\ started < MaxInvocations
    /\ started' = started + 1
    /\ req' = [req EXCEPT ![i] = [r EXCEPT !.serial = started + 1]]

\* line 171: call_tool goes straight into the with block
call_tool(i, D) ==
    /\ pc[i] = "idle"
    /\ \E c \in D.calls :
         Begin(i, [NoReq EXCEPT !.handler = "call_tool", !.name = c.name,
                                !.args = c.args])
    /\ pc' = [pc EXCEPT ![i] = "with"]
    /\ UNCHANGED <<environ, conn, work, result, hist, conns, renderVars>>

\* line 80
list_resources(i) ==
    /\ Begin(i, [NoReq EXCEPT !.handler = "list_resources"])
    /\ pc' = [pc EXCEPT ![i] = "with"]
    /\ UNCHANGED <<environ, conn, work, result, hist, conns, renderVars>>

\* lines 101-106: read_resource parses the URI before it asks for a connection
read_resource(i, D) ==
    /\ pc[i] = "idle"
    /\ started < MaxInvocations
    /\ \E uri \in D.uris :
         LET parts == UriParts(uri)
         IN  IF Len(parts) # 2
             THEN /\ Begin(i, [NoReq EXCEPT !.handler = "read_resource",
                                            !.uri = uri])
                  /\ result' = [result EXCEPT ![i] = Raised("ValueError")]
                  /\ pc' = [pc EXCEPT ![i] = "done"]
             ELSE /\ Begin(i, [NoReq EXCEPT !.handler = "read_resource",
                                            !.uri = uri, !.schema = parts[1],
                                            !.table = parts[2]])
                  /\ pc' = [pc EXCEPT ![i] = "with"]
                  /\ UNCHANGED result
    /\ UNCHANGED <<environ, conn, work, hist, conns, renderVars>>

(***************************************************************************)
(* get_connection, entered: lines 40-53.  An error raised inside the try   *)
(* goes to the finally with conn still None.                               *)
(***************************************************************************)
get_connection_enter(i, D) ==
    /\ pc[i] = "with"
    /\ \E az \in D.azs, ok \in D.oks :
         LET a == get_connection_try(az, ok)
             h == NewHandle
         IN  /\ hist' = [hist EXCEPT ![i].az = a.az, ![i].connects = a.connects]
             /\ IF a.error = ""
                THEN /\ conn' = [conn EXCEPT ![i] = h]
                     /\ conns' = IF h > Len(conns)
                                 THEN Append(conns, [owner |-> req[i].serial,
                                                     closes |-> 0, users |-> {}])
                                 ELSE conns
                     /\ pc' = [pc EXCEPT ![i] = "body"]
                     /\ UNCHANGED work
                ELSE /\ work' = [work EXCEPT ![i] = Raised(a.error)]
                     /\ pc' = [pc EXCEPT ![i] = "exit"]
                     /\ UNCHANGED <<conn, conns>>
    /\ UNCHANGED <<environ, req, result, started, renderVars>>

(***************************************************************************)
(* The body of the with block, run on the connection the task holds.       *)
(***************************************************************************)
RunBody(i, w, cur, fails) ==
    /\ hist' = [hist EXCEPT
                  ![i].stmts = [k \in 1..Len(w.stmts) |->
                                  [conn |-> conn[i], stmt |-> w.stmts[k]]],
                  ![i].answers = IF w.stmts # <<>> /\ ~fails THEN <<cur>> ELSE <<>>,
                  ![i].rendered = w.rendered]
    /\ conns' = [conns EXCEPT ![conn[i]].users = @ \cup {req[i].serial}]
    /\ work' = [work EXCEPT ![i] = w.out]
    /\ pc' = [pc EXCEPT ![i] = "exit"]
    /\ UNCHANGED <<environ, req, conn, result, started, renderVars>>

call_tool_body(i, D) ==
    /\ pc[i] = "body"
    /\ req[i].handler = "call_tool"
    /\ \E cur \in CursorsFor(req[i], D), fails \in D.fails :
         RunBody(i, call_tool_work(req[i].name, req[i].args, cur, fails), cur, fails)

read_resource_body(i, D) ==
    /\ pc[i] = "body"
    /\ req[i].handler = "read_resource"
    /\ \E cur \in CursorsFor(req[i], D), fails \in D.fails :
         RunBody(i, read_resource_work(req[i].schema, req[i].table, cur, fails),
                 cur, fails)

list_resources_body(i, D) ==
    /\ pc[i] = "body"
    /\ req[i].handler = "list_resources"
    /\ \E cur \in CursorsFor(req[i], D), fails \in D.fails :
         RunBody(i, list_resources_work(cur, fails), cur, fails)

(***************************************************************************)
(* get_connection, left: lines 54-56.  conn.close() may raise; nothing     *)
(* catches it, so it replaces whatever the body returned or raised.        *)
(***************************************************************************)
get_connection_exit(i, D) ==
    /\ pc[i] = "exit"
    /\ IF ShouldClose(i)
       THEN \E closeFails \in D.closeFails :
              /\ conns' = [conns EXCEPT ![conn[i]].closes = @ + 1]
              /\ result' = [result EXCEPT
                              ![i] = IF closeFails THEN Raised("pyodbc.Error")
                                     ELSE work[i]]
       ELSE /\ result' = [result EXCEPT ![i] = work[i]]
            /\ UNCHANGED conns
    /\ pc' = [pc EXCEPT ![i] = "done"]
    /\ UNCHANGED <<environ, req, conn, work, hist, started, renderVars>>

\* the handler's frame is gone; the task can serve the next request
handler_return(i) ==
    /\ pc[i] = "done"
    /\ pc' = [pc EXCEPT ![i] = "idle"]
    /\ req' = [req EXCEPT ![i] = NoReq]
    /\ conn' = [conn EXCEPT ![i] = 0]
    /\ work' = [work EXCEPT ![i] = NoOutcome]
    /\ result' = [result EXCEPT ![i] = NoOutcome]
    /\ hist' = [hist EXCEPT ![i] = NoHist]
    /\ UNCHANGED <<environ, conns, started, renderVars>>

\* _rows_to_text on a cursor of its own
render_cursor ==
    /\ ~shown
    /\ text' = rows_to_text(cursor)
    /\ shown' = TRUE
    /\ UNCHANGED <<serverVars, cursor>>

(***************************************************************************)
(* Specifications.  The handlers are coroutines that never await, so the   *)
(* event loop runs each to its end before the next: Spec has one task.     *)
(* SpecConc lets NumTasks invocations interleave at every step, which is   *)
(* more than the event loop allows.  SpecRender runs the renderer alone.   *)
(***************************************************************************)
Step(i, D) ==
    \/ call_tool(i, D)
    \/ read_resource(i, D)
    \/ list_resources(i)
    \/ get_connection_enter(i, D)
    \/ call_tool_body(i, D)
    \/ read_resource_body(i, D)
    \/ list_resources_body(i, D)
    \/ get_connection_exit(i, D)
    \/ handler_return(i)

Next == Step(1, Wide)

NextConc == \E i \in Tasks : Step(i, Narrow)

NextRender == render_cursor

Spec == Init /\ [][Next]_vars

SpecConc == InitConc /\ [][NextConc]_vars

SpecRender == InitRender /\ [][NextRender]_vars


(***************************************************************************)
(* Properties.                                                             *)
(***************************************************************************)
Handles == 1..Len(conns)

\* the invocation that opened connection c is still in its handler
InFlight(c) == \E i \in Tasks : req[i].serial = conns[c].owner /\ pc[i] # "done"

\* C1: a connection that get_connection opened is closed exactly once when
\* the caller's block is left, however it is left (the body returned, or it
\* raised: a failed statement, an unknown tool, a missing argument); when the
\* token fetch or the connect failed there is no connection and no close.
C1_ClosedExactlyOnce ==
    /\ \A c \in Handles :
         /\ conns[c].closes <= 1
         /\ ~InFlight(c) => conns[c].closes = 1
    /\ \A i \in Tasks :
         /\ pc[i] = "done" /\ conn[i] # 0 => conns[conn[i]].closes = 1
         /\ pc[i] \in {"body", "exit"} /\ conn[i] # 0 => conns[conn[i]].closes = 0
         /\ pc[i] \in {"exit", "done"} /\ conn[i] = 0 =>
              \A c \in Handles : conns[c].owner # req[i].serial

\* C1 witness: a body that raised after a statement failed, its connection
\* closed once.
C1_Witness ==
    \E i \in Tasks :
      /\ pc[i] = "done"
      /\ conn[i] # 0
      /\ work[i] = Raised("pyodbc.Error")
      /\ hist[i].stmts # <<>>
      /\ conns[conn[i]].closes = 1

\* the az command of invocation i exited with a non-zero code
AzFailed(i) == hist[i].az # <<>> /\ hist[i].az[1].rc # 0

\* C2: in az_cli mode, when the az command exits non-zero the acquisition
\* fails with the error of the token fetch and pyodbc.connect is never called.
C2_AzFailureNoConnect ==
    \A i \in Tasks :
      AzFailed(i) =>
        /\ hist[i].connects = <<>>
        /\ conn[i] = 0
        /\ work[i] = Raised("CalledProcessError")
        /\ pc[i] = "done" => result[i] = Raised("CalledProcessError")

\* C2 witness: an invocation that ended on the failed token fetch.
C2_Witness ==
    \E i \in Tasks :
      /\ pc[i] = "done"
      /\ AzFailed(i)
      /\ result[i] = Raised("CalledProcessError")

\* C3, as claimed: in az_cli mode, when the az command exits zero and prints
\* nothing but whitespace, the acquisition fails and no connection is
\* attempted with the empty token.
C3_EmptyTokenRejected ==
    \A i \in Tasks :
      /\ hist[i].az # <<>>
      /\ hist[i].az[1].rc = 0
      /\ \A k \in 1..Len(hist[i].az[1].stdout) : IsSpace(hist[i].az[1].stdout[k])
      => /\ hist[i].connects = <<>>
         /\ work[i].type = "raise"

\* C4, as claimed: an error raised by conn.close() is swallowed, so what the
\* handler hands back is what the body of the with block returned or raised.
C4_CloseErrorSwallowed ==
    \A i \in Tasks :
      pc[i] = "done" /\ work[i].type # "none" => result[i] = work[i]

\* C5: an invocation runs its statements on the connection it opened itself,
\* no two invocations hold the same connection, a connection is used by no
\* invocation but the one that opened it (in flight or later), and it has
\* been closed when the handler is done.
C5_ConnectionPerInvocation ==
    /\ \A i \in Tasks :
         /\ pc[i] \in {"body", "exit", "done"} /\ conn[i] # 0 =>
              conns[conn[i]].owner = req[i].serial
         /\ \A k \in 1..Len(hist[i].stmts) :
              /\ hist[i].stmts[k].conn = conn[i]
              /\ conn[i] # 0
              /\ conns[conn[i]].owner = req[i].serial
         /\ pc[i] = "done" /\ conn[i] # 0 => conns[conn[i]].closes >= 1
    /\ \A i, j \in Tasks : i # j /\ conn[i] # 0 => conn[i] # conn[j]
    /\ \A c \in Handles : conns[c].users \subseteq {conns[c].owner}

\* C5 witness: two invocations in their with blocks at once, one of which
\* has run its statement, each on a connection of its own.
C5_Witness ==
    \E i, j \in Tasks :
      /\ i # j
      /\ pc[i] = "exit" /\ hist[i].stmts # <<>>
      /\ pc[j] = "body"
      /\ conn[i] # 0 /\ conn[j] # 0 /\ conn[i] # conn[j]

\* what is left of a URI when the scheme is stripped from its front
Remainder(uri) ==
    IF OccursAt(uri, SchemePrefix, 1)
    THEN SubSeq(uri, Len(SchemePrefix) + 1, Len(uri)) ELSE uri

\* the index of the first "." of s, 0 when it has none
FirstDot(s) ==
    IF \E k \in 1..Len(s) : s[k] = "."
    THEN CHOOSE k \in 1..Len(s) : s[k] = "." /\ \A j \in 1..(k - 1) : s[j] # "."
    ELSE 0

\* the remainder splits on its first "." into two non-empty parts
WellFormed(uri) ==
    LET r == Remainder(uri)
    IN  FirstDot(r) > 1 /\ FirstDot(r) < Len(r)

\* C6, as claimed: read_resource raises its validation error, with no
\* connection asked for and no statement run, for every URI whose remainder
\* does not split on the first "." into two non-empty parts; otherwise the
\* part before the first "." is the schema and the rest is the table.
C6_UriValidated ==
    \A i \in Tasks :
      req[i].handler = "read_resource" =>
        LET r == Remainder(req[i].uri)
        IN  IF WellFormed(req[i].uri)
            THEN /\ req[i].schema = SubSeq(r, 1, FirstDot(r) - 1)
                 /\ req[i].table = SubSeq(r, FirstDot(r) + 1, Len(r))
            ELSE /\ pc[i] = "done"
                 /\ result[i] = Raised("ValueError")
                 /\ hist[i] = NoHist

\* C7, as claimed: the N of sample_table's SELECT TOP N is between 0 and 500
\* whatever integer is asked for, and is 50 when rows is not given.
C7_SampleRowsClamped ==
    \A i \in Tasks :
      \A k \in 1..Len(hist[i].stmts) :
        hist[i].stmts[k].stmt.sql = SqlSample =>
          /\ 0 <= hist[i].stmts[k].stmt.top
          /\ hist[i].stmts[k].stmt.top <= 500
          /\ "rows" \notin req[i].args.keys => hist[i].stmts[k].stmt.top = 50


\* the text of the renderer's output cut at its line breaks
RECURSIVE SplitLines(_)
SplitLines(t) ==
    LET k == Find(t, <<"\n">>)
    IN  IF k = 0 THEN <<t>>
        ELSE <<SubSeq(t, 1, k - 1)>> \o SplitLines(SubSeq(t, k + 1, Len(t)))

\* a cell as the table shows it
CellText(v) == IF v.t = "null" THEN <<"N", "U", "L", "L">> ELSE PyStr(v)

\* the width the specification gives column i
SpecWidth(columns, rows, i) ==
    LET lens == {Len(columns[i])} \cup {Len(CellText(rows[r][i])) : r \in 1..Len(rows)}
    IN  CHOOSE m \in lens : \A x \in lens : x <= m

\* where the content of column i starts in a line "| c1 | c2 | ... |"
RECURSIVE ColStart(_, _)
ColStart(w, i) == IF i = 1 THEN 3 ELSE ColStart(w, i - 1) + w[i - 1] + 3

\* C8: for rows that are not empty, the separator lines, the header line and
\* every data line are equally long; the segment of column i is as wide as
\* the longest of its name and the string forms of its values, in the
\* separator, the header and every data line; None is shown as NULL and
\* counts four characters.
C8_TableAligned ==
    shown /\ cursor.rows # <<>> =>
      LET L == SplitLines(text)
          cols == cursor.columns
          rows == cursor.rows
          n == Len(rows)
          N == Len(cols)
          w == [i \in 1..N |-> SpecWidth(cols, rows, i)]
      IN  /\ Len(L) = n + 5
          /\ \A k \in 1..(n + 4) : Len(L[k]) = ColStart(w, N) + w[N] + 1
          /\ L[3] = L[1] /\ L[n + 4] = L[1]
          /\ \A i \in 1..N :
               /\ L[1][ColStart(w, i) - 2] = "+"
               /\ SubSeq(L[1], ColStart(w, i) - 1, ColStart(w, i) + w[i])
                    = [k \in 1..(w[i] + 2) |-> "-"]
               /\ L[2][ColStart(w, i) - 2] = "|"
               /\ SubSeq(L[2], ColStart(w, i) - 1, ColStart(w, i) + w[i])
                    = <<" ">> \o cols[i]
                        \o [k \in 1..(w[i] - Len(cols[i])) |-> " "] \o <<" ">>
               /\ \A r \in 1..n :
                    /\ L[3 + r][ColStart(w, i) - 2] = "|"
                    /\ SubSeq(L[3 + r], ColStart(w, i) - 1, ColStart(w, i) + w[i])
                         = <<" ">> \o CellText(rows[r][i])
                             \o [k \in 1..(w[i] - Len(CellText(rows[r][i]))) |-> " "]
                             \o <<" ">>
          /\ L[1][Len(L[1])] = "+"
          /\ \A k \in 2..(n + 3) : k # 3 => L[k][Len(L[k])] = "|"

\* C8 witness: a rendered table with a column named x whose widest cell is a
\* None, next to a column whose name is the widest.
C8_Witness ==
    /\ shown
    /\ Len(cursor.columns) = 2
    /\ Len(cursor.rows) = 2
    /\ cursor.columns[1] = <<"x">>
    /\ cursor.rows[1][1].t = "null"
    /\ cursor.rows[2][1].t = "int"
    /\ cursor.columns[2] = ColTotal
    /\ \A r \in 1..2 : cursor.rows[r][2].t # "str"
    /\ Len(SplitLines(text)[1]) = 4 + 5 + 7

\* AZURE_SQL_AUTH selects the delegated identity
Delegated ==
    EnvHas("AZURE_SQL_AUTH") /\ Lower(environ.AZURE_SQL_AUTH) = <<"a", "z", "_", "c", "l", "i">>

\* b is the 4-byte little-endian length of the UTF-16LE form of token tok,
\* followed by that form
IsTokenStruct(b, tok) ==
    /\ Len(b) = 4 + 2 * Len(tok)
    /\ b[1] = 2 * Len(tok) /\ b[2] = 0 /\ b[3] = 0 /\ b[4] = 0
    /\ \A k \in 1..Len(tok) : b[4 + 2 * k - 1] = Ord(tok[k]) /\ b[4 + 2 * k] = 0

\* C9: with the static credential the driver is handed the base string
\* followed by UID=<user>;PWD=<password>; and no attribute, and the az command
\* is never run; with the delegated identity it is handed the base string
\* alone, the token going in the access-token attribute only.
C9_ConnectArguments ==
    \A i \in Tasks :
      /\ Len(hist[i].connects) <= 1
      /\ ~Delegated =>
           /\ hist[i].az = <<>>
           /\ \A k \in 1..Len(hist[i].connects) :
                /\ hist[i].connects[k].str =
                     build_conn_str \o <<"U", "I", "D", "=">> \o environ.AZURE_SQL_USER
                       \o <<";", "P", "W", "D", "=">> \o environ.AZURE_SQL_PASSWORD
                       \o <<";">>
                /\ ~hist[i].connects[k].attrs.has
      /\ Delegated =>
           \A k \in 1..Len(hist[i].connects) :
             /\ hist[i].connects[k].str = build_conn_str
             /\ hist[i].connects[k].attrs.has
             /\ hist[i].connects[k].attrs.key = 1256
             /\ Len(hist[i].az) = 1
             /\ IsTokenStruct(hist[i].connects[k].attrs.value,
                              Strip(hist[i].az[1].stdout))

\* C9 witness: a connection opened with the static credential, the optional
\* variables being set.
C9_Witness ==
    \E i \in Tasks :
      /\ ~Delegated
      /\ environ.keys = EnvKeys
      /\ conn[i] # 0
      /\ Len(hist[i].connects) = 1

\* C10: execute_query answers "<rowcount> row(s) affected", with the count the
\* driver reports, and does not call the renderer when the statement gave no
\* column metadata; it answers with the rendered table when it gave some.
C10_AffectedOrTable ==
    \A i \in Tasks :
      /\ req[i].name = "execute_query"
      /\ hist[i].answers # <<>>
      => LET cur == hist[i].answers[1]
         IN  IF cur.desc
             THEN /\ hist[i].rendered = 1
                  /\ work[i] = Returned(rows_to_text(cur))
             ELSE /\ hist[i].rendered = 0
                  /\ work[i] = Returned(IntToStr(cur.rowcount) \o AffectedSuffix)
                  /\ cur.rowcount = 3 =>
                       work[i].value = <<"3", " ", "r", "o", "w", "(", "s", ")", " ",
                                         "a", "f", "f", "e", "c", "t", "e", "d">>

\* C10 witness: an UPDATE of three rows answered with the count.
C10_Witness ==
    \E i \in Tasks :
      /\ pc[i] = "done"
      /\ req[i].name = "execute_query"
      /\ hist[i].answers # <<>>
      /\ ~hist[i].answers[1].desc
      /\ hist[i].answers[1].rowcount = 3
      /\ hist[i].rendered = 0
      /\ result[i] = Returned(IntToStr(3) \o AffectedSuffix)

=============================================================================
